---------------------------- MODULE Spec2Model ----------------------------
(***************************************************************************)
(* A model of pySystemInfo: the byte-size formatter getSize (both copies,  *)
(* src/pySystemInfo.py and src/systemInfo.py), the SysInfo class with its  *)
(* class-level OS reads and its properties, and the reporting functions of *)
(* pySystemInfo.py.                                                        *)
(*                                                                         *)
(* Python integers are unbounded and TLC's are 32 bit, so a byte count is  *)
(* held as a little-endian sequence of base-1024 digits ("limbs").  A      *)
(* Python number inside getSize is [m, e]: the value m / 1024^e, where     *)
(* e = 0 is the caller's int and e > 0 a float (an IEEE double).           *)
(***************************************************************************)
EXTENDS Integers, Sequences, FiniteSets, TLC

VARIABLES
    bytes,      \* getSize: the caller's byte count (limbs)
    suffix,     \* getSize: the caller's suffix argument
    modRet,     \* what pySystemInfo.getSize(bytes, suffix) returned, or Unset
    clsRet,     \* what SysInfo.getSize(bytes, suffix) returned, or Unset
    os,         \* what the operating system would report now (psutil,
                \* platform, socket, uuid)
    cls,        \* the class attributes of SysInfo, bound when the class
                \* body ran (import time)
    last,       \* the SysInfo property read last: its name, what the
                \* read gave, and the OS queries the read made
    nchg,       \* how many times the OS state has changed since import
    pc,         \* pySystemInfo.py: where the program is
    args,       \* pySystemInfo.py: the parsed command line
    report      \* pySystemInfo.py: what the command run last printed, the
                \* exception that ended it, and the OS queries it made

sizeVars == <<bytes, suffix, modRet, clsRet>>
infoVars == <<os, cls, last, nchg>>
mainVars == <<pc, args, report>>
vars == <<bytes, suffix, modRet, clsRet, os, cls, last, nchg, pc, args, report>>

---------------------------------------------------------------------------
(* Values *)

\* A Python function that falls off its end returns None.
None == [kind |-> "None"]
\* A Python str.
Str(s) == [kind |-> "str", s |-> s]
\* No call has been made yet.
Unset == [kind |-> "unset"]

---------------------------------------------------------------------------
(* getSize: src/pySystemInfo.py 40-50 and src/systemInfo.py 106-116 *)

\* factor = 1024
factor == 1024

\* for unit in ["", "K", "M", "G", "T", "P"]
Units == <<"", "K", "M", "G", "T", "P">>

\* Byte counts range over 0 .. 1024^(Len(Units)+1) - 1, so that counts the
\* six prefixes cannot bring below 1024 are among them.
NLimbs == Len(Units) + 1

\* Width of a double's significand.
MantBits == 53
\* Bits per limb: factor = 2^LimbBits.
LimbBits == 10

Pow2Tab == <<1, 2, 4, 8, 16, 32, 64, 128, 256, 512>>

\* A byte count written with its low limbs only.
Pad(m) == m \o [i \in 1..(NLimbs - Len(m)) |-> 0]

\* Limb i of m (0 beyond its length).
Limb(m, i) == IF i >= 1 /\ i <= Len(m) THEN m[i] ELSE 0

\* Bit j (0-based) of the integer held in limbs m.
Bit(m, j) == (Limb(m, (j \div LimbBits) + 1) \div Pow2Tab[(j % LimbBits) + 1]) % 2

\* Number of significant bits of m (0 for zero).
BitLength(m) ==
    LET set == {j \in 0..(LimbBits * Len(m) - 1) : Bit(m, j) = 1}
    IN  IF set = {} THEN 0
        ELSE (CHOOSE j \in set : \A j2 \in set : j2 <= j) + 1

\* The integer nearest to m with at most MantBits significant bits, ties to
\* even: what int -> double conversion (and int / int true division, up to
\* the exact power-of-two scaling) does.  One limb longer than m, for the
\* carry.
Round53(m) ==
    LET n    == BitLength(m)
        wide == m \o <<0>>
    IN  IF n <= MantBits THEN wide
        ELSE
          LET drop   == n - MantBits
              guard  == Bit(m, drop - 1) = 1
              sticky == \E j \in 0..(drop - 2) : Bit(m, j) = 1
              odd    == Bit(m, drop) = 1
              up     == guard /\ (sticky \/ odd)
              top    == LimbBits * Len(wide) - 1
              \* the first 0 bit at or above drop: where the carry stops
              z      == CHOOSE j \in drop..top :
                            /\ Bit(wide, j) = 0
                            /\ \A j2 \in drop..(j - 1) : Bit(wide, j2) = 1
              newbit(j) == IF j < drop THEN 0
                           ELSE IF ~up THEN Bit(wide, j)
                           ELSE IF j < z THEN 0
                           ELSE IF j = z THEN 1
                           ELSE Bit(wide, j)
              limb(i) == LET b(t) == newbit(LimbBits * (i - 1) + t) * Pow2Tab[t + 1]
                         IN  b(0) + b(1) + b(2) + b(3) + b(4)
                             + b(5) + b(6) + b(7) + b(8) + b(9)
          IN  [i \in 1..Len(wide) |-> limb(i)]

\* The caller's int as a number of getSize.
IntNum(m) == [m |-> m, e |-> 0]

\* A float with one decimal (a psutil percentage), in tenths.  psutil's
\* percentages stay far below factor, so getSize never divides one.
DecNum(t) == [tenths |-> t]
IsDec(v) == "tenths" \in DOMAIN v

\* "bytes <= factor" in place of "bytes < factor".
LtFactor_le(v) ==
    IF IsDec(v) THEN v.tenths <= 10 * factor
    ELSE \/ \A i \in 1..Len(v.m) : i > v.e + 1 => v.m[i] = 0
         \/ /\ v.m[v.e + 2] = 1
            /\ \A i \in 1..Len(v.m) : i # v.e + 2 => v.m[i] = 0

\* bytes < factor
LtFactor(v) ==
    IF IsDec(v) THEN v.tenths < 10 * factor
    ELSE \A i \in 1..Len(v.m) : i > v.e + 1 => v.m[i] = 0

\* bytes /= factor: true division.  int / int gives the correctly rounded
\* double; double / 1024 is exact.
DivFactor(v) ==
    CASE ~IsDec(v) ->
        [m |-> IF v.e = 0 THEN Round53(v.m) ELSE v.m, e |-> v.e + 1]

\* 100 * m, limb by limb with carry; one limb longer than m.
RECURSIVE MulCarry(_, _, _, _)
MulCarry(m, c, i, carry) ==
    IF i > Len(m) THEN <<carry>>
    ELSE LET t == c * m[i] + carry
         IN  <<t % factor>> \o MulCarry(m, c, i + 1, t \div factor)

Times(m, c) == MulCarry(m, c, 1, 0)

DecDigits == <<"0", "1", "2", "3", "4", "5", "6", "7", "8", "9">>

\* str(n) for a natural n.
RECURSIVE IntStr(_)
IntStr(n) ==
    IF n < 10 THEN DecDigits[n + 1]
    ELSE IntStr(n \div 10) \o DecDigits[(n % 10) + 1]

\* h hundredths printed with two decimals: 120 -> "1.20".
Hundredths(h) ==
    IntStr(h \div 100) \o "." \o DecDigits[((h \div 10) % 10) + 1]
                              \o DecDigits[(h % 10) + 1]

\* The integer part and the position of the rest, relative to one half, of
\* p / 1024^e.
IntPart(p, e) == Limb(p, e + 1) + factor * Limb(p, e + 2)
RestIsHalf(p, e) ==
    e >= 1 /\ Limb(p, e) = factor \div 2 /\ \A i \in 1..(e - 1) : Limb(p, i) = 0
RestAboveHalf(p, e) ==
    /\ e >= 1
    /\ \/ Limb(p, e) > factor \div 2
       \/ Limb(p, e) = factor \div 2 /\ \E i \in 1..(e - 1) : Limb(p, i) # 0

\* round(100 * v), ties to even: the digits "{bytes:.2f}" prints, for a
\* value below 1024 * 1024.
RoundedHundredths(v) ==
    IF IsDec(v) THEN 10 * v.tenths
    ELSE LET p == Times(v.m, 100)
             h == IntPart(p, v.e)
         IN  IF RestAboveHalf(p, v.e) \/ (RestIsHalf(p, v.e) /\ h % 2 = 1)
             THEN h + 1 ELSE h

\* f"{bytes:.2f}"
Format2f(v) == Hundredths(RoundedHundredths(v))

\* The loop of pySystemInfo.getSize from unit index i on.
RECURSIVE getSizeFrom(_, _, _)
getSizeFrom(v, i, sfx) ==
    IF i > Len(Units) THEN None
    ELSE IF LtFactor(v) THEN Str(Format2f(v) \o Units[i] \o sfx)
    ELSE getSizeFrom(DivFactor(v), i + 1, sfx)

\* def getSize(bytes, suffix="B")                    src/pySystemInfo.py
getSize(b, sfx) == getSizeFrom(IntNum(b), 1, sfx)

\* The loop of SysInfo.getSize from unit index i on.
RECURSIVE SysInfo_getSizeFrom(_, _, _)
SysInfo_getSizeFrom(v, i, sfx) ==
    IF i > Len(Units) THEN None
    ELSE IF LtFactor(v) THEN Str(Format2f(v) \o Units[i] \o sfx)
    ELSE SysInfo_getSizeFrom(DivFactor(v), i + 1, sfx)

\* A SysInfo.getSize that ignores the caller's suffix.
SysInfo_getSize_defaultSuffix(b, sfx) == SysInfo_getSizeFrom(IntNum(b), 1, "B")

\* def getSize(self, bytes, suffix="B")              src/systemInfo.py
SysInfo_getSize(b, sfx) == SysInfo_getSizeFrom(IntNum(b), 1, sfx)

---------------------------------------------------------------------------
(* Python values *)

PyInt(n) == [kind |-> "int", n |-> n]
List(items) == [kind |-> "list", items |-> items]
Dict(map) == [kind |-> "dict", map |-> map]
\* The evaluation raised an exception instead of giving a value.
Raise(e) == [kind |-> "raise", exc |-> e]

\* str(x) / f"{x}" of a str or None.
PyStr(r) == IF r.kind = "None" THEN "None" ELSE r.s

\* f"{x}" of a float with one decimal, given in tenths: 453 -> "45.3".
Tenths(t) == IntStr(t \div 10) \o "." \o DecDigits[(t % 10) + 1]

\* f"{n:02}"
Two(n) == IF n < 10 THEN "0" \o IntStr(n) ELSE IntStr(n)

EmptyDict == [k \in {} |-> None]
\* p[k] = v
DictSet(d, k, v) == [x \in (DOMAIN d) \cup {k} |-> IF x = k THEN v ELSE d[x]]

---------------------------------------------------------------------------
(* The operating system, as psutil, platform, socket and uuid report it *)

\* The most partitions the OS lists at once.
MaxParts == 2
\* The most logical cores online.
MaxCores == 2
\* The most addresses bound to one interface.
MaxAddrs == 2
\* The most changes of the OS state followed after import.
MaxOsChanges == 1

\* psutil.disk_partitions() entries.  PartRoot and PartHome are one device
\* mounted twice.
PartRoot == [device |-> "/dev/sda1", mountpoint |-> "/", fstype |-> "ext4"]
PartHome == [device |-> "/dev/sda1", mountpoint |-> "/home", fstype |-> "ext4"]
PartCd   == [device |-> "/dev/sr0", mountpoint |-> "/media/cd", fstype |-> "iso9660"]
Partitions == {PartRoot, PartHome, PartCd}

Range(q) == {q[i] : i \in DOMAIN q}

\* The sequences of at most n distinct elements of S.
RECURSIVE SeqsNoRepeat(_, _)
SeqsNoRepeat(S, n) ==
    IF n = 0 THEN {<<>>}
    ELSE LET shorter == SeqsNoRepeat(S, n - 1)
         IN  shorter \cup
             UNION {{Append(q, x) : x \in S \ Range(q)} :
                    q \in {t \in shorter : Len(t) = n - 1}}

PartitionLists == SeqsNoRepeat(Partitions, MaxParts)

\* psutil.disk_usage(mountpoint), when it does not raise.
DiskUsage(mp) ==
    CASE mp = "/"         -> [total |-> Pad(<<0, 0, 0, 100>>), used |-> Pad(<<0, 0, 512, 40>>),
                              free |-> Pad(<<0, 0, 512, 59>>), percent |-> 405]
      [] mp = "/home"     -> [total |-> Pad(<<0, 0, 0, 100>>), used |-> Pad(<<0, 0, 512, 40>>),
                              free |-> Pad(<<0, 0, 512, 59>>), percent |-> 405]
      [] mp = "/media/cd" -> [total |-> Pad(<<0, 0, 700>>), used |-> Pad(<<0, 0, 700>>),
                              free |-> Pad(<<0>>), percent |-> 1000]

\* socket address families, and their str().
Families == {"AF_INET", "AF_PACKET", "AF_INET6"}
FamilyStr(f) == "AddressFamily." \o f

\* One bound address of each family, as psutil.net_if_addrs() lists it.
Address(f) ==
    CASE f = "AF_INET"   -> [family |-> f, address |-> Str("192.168.1.10"),
                             netmask |-> Str("255.255.255.0"),
                             broadcast |-> Str("192.168.1.255")]
      [] f = "AF_PACKET" -> [family |-> f, address |-> Str("00:1a:2b:3c:4d:5e"),
                             netmask |-> None,
                             broadcast |-> Str("ff:ff:ff:ff:ff:ff")]
      [] f = "AF_INET6"  -> [family |-> f, address |-> Str("fe80::1"),
                             netmask |-> Str("ffff:ffff:ffff:ffff::"),
                             broadcast |-> None]

InterfaceNames == {"lo", "eth0"}

RECURSIVE SeqsUpTo(_, _)
SeqsUpTo(S, n) ==
    IF n = 0 THEN {<<>>}
    ELSE LET shorter == SeqsUpTo(S, n - 1)
         IN  shorter \cup {Append(q, x) : q \in {t \in shorter : Len(t) = n - 1},
                                          x \in S}

AddressLists == {[i \in DOMAIN fs |-> Address(fs[i])] : fs \in SeqsUpTo(Families, MaxAddrs)}

\* psutil.net_if_addrs(): a dict, held as the sequence of its items in
\* iteration order.
IfTables ==
    UNION {{[i \in DOMAIN names |-> [name |-> names[i], addrs |-> al[names[i]]]] :
               al \in [InterfaceNames -> AddressLists]} :
           names \in SeqsNoRepeat(InterfaceNames, Cardinality(InterfaceNames))}

\* platform.uname()
Uname(node) ==
    [system |-> "Linux", node |-> node, release |-> "5.10.0",
     version |-> "#1 SMP", machine |-> "x86_64", processor |-> "x86_64"]

\* psutil.cpu_freq(): MHz, in hundredths; None where the platform has none.
CpuFreqs == {[max |-> 340000, min |-> 80000, current |-> 120000],
             [max |-> 340000, min |-> 80000, current |-> 265050]}

\* psutil.virtual_memory() and psutil.swap_memory()
Memories ==
    {[total |-> Pad(<<0, 0, 0, 16>>), available |-> Pad(<<0, 0, 512, 4>>),
      used |-> Pad(<<0, 0, 512, 11>>), percent |-> 719],
     [total |-> Pad(<<0, 0, 0, 16>>), available |-> Pad(<<0, 0, 0, 8>>),
      used |-> Pad(<<0, 0, 0, 8>>), percent |-> 500]}
Swaps ==
    {[total |-> Pad(<<0, 0, 0, 2>>), free |-> Pad(<<0, 0, 0, 2>>),
      used |-> Pad(<<0>>), percent |-> 0],
     [total |-> Pad(<<0, 0, 0, 2>>), free |-> Pad(<<0, 0, 0, 1>>),
      used |-> Pad(<<0, 0, 0, 1>>), percent |-> 500]}

\* psutil.disk_io_counters() and psutil.net_io_counters(): totals since boot
DiskIOs == {[read_bytes |-> Pad(<<0, 0, 300>>), write_bytes |-> Pad(<<0, 0, 100>>)],
            [read_bytes |-> Pad(<<0, 0, 0, 1>>), write_bytes |-> Pad(<<0, 512, 100>>)]}
NetIOs == {[bytes_sent |-> Pad(<<0, 10>>), bytes_recv |-> Pad(<<0, 20>>)],
           [bytes_sent |-> Pad(<<0, 0, 1>>), bytes_recv |-> Pad(<<0, 0, 5>>)]}

\* psutil.cpu_percent(percpu=True) of n online logical cores, in tenths.
PerCpu(n) == [i \in 1..n |-> 125 * i]

\* The machine right after boot, with everything available.
BaseOS ==
    [uname        |-> Uname("alpha"),
     arch         |-> "64bit",
     hostResolves |-> TRUE,
     ip           |-> "192.168.1.10",
     node         |-> <<0, 26, 43, 60, 77, 94>>,
     bootTime     |-> [day |-> 2, month |-> 11, year |-> 2020,
                       hour |-> 7, minute |-> 5, second |-> 9],
     physical     |-> 1,
     percpu       |-> PerCpu(MaxCores),
     cpuTotal     |-> 187,
     cpuFreq      |-> CHOOSE f \in CpuFreqs : f.current = 120000,
     svmem        |-> CHOOSE m \in Memories : m.percent = 719,
     swap         |-> CHOOSE m \in Swaps : m.percent = 0,
     partitions   |-> <<PartRoot, PartCd>>,
     failing      |-> {},
     diskIO       |-> CHOOSE d \in DiskIOs : d.read_bytes = Pad(<<0, 0, 300>>),
     ifAddrs      |-> <<[name |-> "lo", addrs |-> <<Address("AF_INET")>>],
                        [name |-> "eth0", addrs |-> <<Address("AF_INET"),
                                                      Address("AF_PACKET")>>]>>,
     netIO        |-> CHOOSE d \in NetIOs : d.bytes_sent = Pad(<<0, 10>>),
     python       |-> [build |-> "('default', 'Oct  5 2020 17:52:02')",
                       compiler |-> "GCC 9.3.0", branch |-> "",
                       implementation |-> "CPython", revision |-> "",
                       version |-> "3.8.6"]]

---------------------------------------------------------------------------
(* class SysInfo: src/systemInfo.py *)

\* The statements of the class body, run once when the module is imported:
\* uname = platform.uname(), cpuFreq = psutil.cpu_freq(), ...
ClassBody(o) ==
    [uname      |-> o.uname,
     cpuFreq    |-> o.cpuFreq,
     svmem      |-> o.svmem,
     swap       |-> o.swap,
     partitions |-> o.partitions,
     diskIO     |-> o.diskIO,
     ifAddrs    |-> o.ifAddrs,
     netIO      |-> o.netIO]

\* What a property access gives: the value returned (or the exception
\* raised) and the OS queries made on the way.
Got(v) == [value |-> v, calls |-> <<>>]
GotWith(v, calls) == [value |-> v, calls |-> calls]

\* x.attr where x may be None: AttributeError.
Attr(x, v) == IF x = None THEN Raise("AttributeError") ELSE v

System(c, o)    == Got(Str(c.uname.system))
Hostname(c, o)  == Got(Str(c.uname.node))
Release(c, o)   == Got(Str(c.uname.release))
Version(c, o)   == Got(Str(c.uname.version))
Machine(c, o)   == Got(Str(c.uname.machine))
Processor(c, o) == Got(Str(c.uname.processor))

Architecture(c, o) == GotWith(Str(o.arch), <<<<"platform.architecture">>>>)

\* socket.gethostbyname(socket.gethostname())
IPaddress(c, o) ==
    GotWith(IF o.hostResolves THEN Str(o.ip) ELSE Raise("socket.gaierror"),
            <<<<"socket.gethostbyname">>>>)

HexDigits == <<"0", "1", "2", "3", "4", "5", "6", "7",
               "8", "9", "a", "b", "c", "d", "e", "f">>
Hex2(b) == HexDigits[(b \div 16) + 1] \o HexDigits[(b % 16) + 1]

\* ':'.join(re.findall('..', '%012x' % uuid.getnode())), the node given as
\* its six bytes
MacString(n) ==
    Hex2(n[1]) \o ":" \o Hex2(n[2]) \o ":" \o Hex2(n[3]) \o ":" \o
    Hex2(n[4]) \o ":" \o Hex2(n[5]) \o ":" \o Hex2(n[6])

MACaddress(c, o) == GotWith(Str(MacString(o.node)), <<<<"uuid.getnode">>>>)

\* The line made of datetime.fromtimestamp(psutil.boot_time())
BootTimeLine(bt) ==
    "Boot Time: " \o Two(bt.day) \o "/" \o Two(bt.month) \o "/" \o Two(bt.year)
    \o " " \o Two(bt.hour) \o ":" \o Two(bt.minute) \o ":" \o Two(bt.second)

BootTime(c, o) == GotWith(Str(BootTimeLine(o.bootTime)), <<<<"psutil.boot_time">>>>)

PhysicalCores(c, o) == GotWith(PyInt(o.physical), <<<<"psutil.cpu_count">>>>)
TotalCores(c, o)    == GotWith(PyInt(Len(o.percpu)), <<<<"psutil.cpu_count">>>>)

MaxFrequency(c, o) ==
    Got(Attr(c.cpuFreq, Str(Hundredths(c.cpuFreq.max) \o "MHz")))
MinFrequency(c, o) ==
    Got(Attr(c.cpuFreq, Str(Hundredths(c.cpuFreq.min) \o "MHz")))
CurrentFrequency(c, o) ==
    Got(Attr(c.cpuFreq, Str(Hundredths(c.cpuFreq.current) \o "MHz")))

\* for i, percentage in enumerate(psutil.cpu_percent(percpu=True))
RECURSIVE CPUusageLoop(_, _, _)
CPUusageLoop(percents, i, q) ==
    IF i > Len(percents) THEN q
    ELSE CPUusageLoop(percents, i + 1, Append(q, percents[i]))

CPUusage(c, o) ==
    GotWith(List(CPUusageLoop(o.percpu, 1, <<>>)), <<<<"psutil.cpu_percent">>>>)

TotalCPUusage(c, o) ==
    GotWith(Str(Tenths(o.cpuTotal) \o "%"), <<<<"psutil.cpu_percent">>>>)

TotalMemory(c, o)      == Got(SysInfo_getSize(c.svmem.total, "B"))
AvailableMemory(c, o)  == Got(SysInfo_getSize(c.svmem.available, "B"))
UsedMemory(c, o)       == Got(SysInfo_getSize(c.svmem.used, "B"))
PercentageMemory(c, o) == Got(Str(Tenths(c.svmem.percent) \o "%"))

TotalSwap(c, o)      == Got(SysInfo_getSize(c.swap.total, "B"))
AvailableSwap(c, o)  == Got(SysInfo_getSize(c.swap.free, "B"))
UsedSwap(c, o)       == Got(SysInfo_getSize(c.swap.used, "B"))
PercentageSwap(c, o) == Got(Str(Tenths(c.swap.percent) \o "%"))

\* The list built for one partition whose usage query succeeded.
PartitionEntry(partition, usage) ==
    <<Str(partition.mountpoint),
      Str(partition.fstype),
      SysInfo_getSize(usage.total, "B"),
      SysInfo_getSize(usage.used, "B"),
      SysInfo_getSize(usage.free, "B"),
      Str(PyStr(SysInfo_getSizeFrom(DecNum(usage.percent), 1, "B")) \o "%")>>

\* for partition in self.partitions: from partition i on, with the
\* dictionary p and the OS queries made so far.
RECURSIVE DiskPartitionsLoop(_, _, _, _, _)
DiskPartitionsLoop(parts, i, o, p, calls) ==
    IF i > Len(parts) THEN GotWith(Dict(p), calls)
    ELSE LET partition == parts[i]
             asked == Append(calls, <<"psutil.disk_usage", partition.mountpoint>>)
         IN  IF partition.mountpoint \in o.failing
             THEN \* except PermissionError: continue
                  DiskPartitionsLoop(parts, i + 1, o, p, asked)
             ELSE DiskPartitionsLoop(parts, i + 1, o,
                      DictSet(p, partition.device,
                              PartitionEntry(partition, DiskUsage(partition.mountpoint))),
                      asked)

DiskPartitions(c, o) == DiskPartitionsLoop(c.partitions, 1, o, EmptyDict, <<>>)

DiskTotalRead(c, o) ==
    Got(Attr(c.diskIO, SysInfo_getSize(c.diskIO.read_bytes, "B")))
DiskTotalWrite(c, o) ==
    Got(Attr(c.diskIO, SysInfo_getSize(c.diskIO.write_bytes, "B")))

\* An entry with netmask and broadcast the other way round.
NetworkEntry_swapped(interfaceName, address) ==
    <<Str(interfaceName), Str(FamilyStr(address.family)),
      address.address, address.broadcast, address.netmask>>

\* The list built for one address of one interface.
NetworkEntry(interfaceName, address) ==
    <<Str(interfaceName), Str(FamilyStr(address.family)),
      address.address, address.netmask, address.broadcast>>

\* for address in interfaceAddresses: from address j on.
RECURSIVE AddressLoop(_, _, _, _)
AddressLoop(item, j, p, n) ==
    IF j > Len(item.addrs) THEN [p |-> p, n |-> n]
    ELSE AddressLoop(item, j + 1,
                     DictSet(p, n, NetworkEntry(item.name, item.addrs[j])), n + 1)

\* for interfaceName, interfaceAddresses in self.ifAddrs.items(): from
\* item i on.
RECURSIVE NetworksLoop(_, _, _, _)
NetworksLoop(items, i, p, n) ==
    IF i > Len(items) THEN p
    ELSE LET r == AddressLoop(items[i], 1, p, n)
         IN  NetworksLoop(items, i + 1, r.p, r.n)

Networks(c, o) == Got(Dict(NetworksLoop(c.ifAddrs, 1, EmptyDict, 0)))

TotalBytesSent(c, o)     == Got(SysInfo_getSize(c.netIO.bytes_sent, "B"))
TotalBytesReceived(c, o) == Got(SysInfo_getSize(c.netIO.bytes_recv, "B"))

PythonBuild(c, o)          == Got(Str(o.python.build))
PythonCompiler(c, o)       == Got(Str(o.python.compiler))
PythonBranch(c, o)         == Got(Str(o.python.branch))
PythonImplementation(c, o) == Got(Str(o.python.implementation))
PythonRevision(c, o)       == Got(Str(o.python.revision))
PythonVersion(c, o)        == Got(Str(o.python.version))

PropertyNames ==
    {"System", "Hostname", "Release", "Version", "Machine", "Processor",
     "Architecture", "IPaddress", "MACaddress", "BootTime",
     "PhysicalCores", "TotalCores", "MaxFrequency", "MinFrequency",
     "CurrentFrequency", "CPUusage", "TotalCPUusage",
     "TotalMemory", "AvailableMemory", "UsedMemory", "PercentageMemory",
     "TotalSwap", "AvailableSwap", "UsedSwap", "PercentageSwap",
     "DiskPartitions", "DiskTotalRead", "DiskTotalWrite",
     "Networks", "TotalBytesSent", "TotalBytesReceived",
     "PythonBuild", "PythonCompiler", "PythonBranch",
     "PythonImplementation", "PythonRevision", "PythonVersion"}

\* SysInfo().<name>, with the class attributes c and the OS as it is now.
Property(name, c, o) ==
    CASE name = "System"           -> System(c, o)
      [] name = "Hostname"         -> Hostname(c, o)
      [] name = "Release"          -> Release(c, o)
      [] name = "Version"          -> Version(c, o)
      [] name = "Machine"          -> Machine(c, o)
      [] name = "Processor"        -> Processor(c, o)
      [] name = "Architecture"     -> Architecture(c, o)
      [] name = "IPaddress"        -> IPaddress(c, o)
      [] name = "MACaddress"       -> MACaddress(c, o)
      [] name = "BootTime"         -> BootTime(c, o)
      [] name = "PhysicalCores"    -> PhysicalCores(c, o)
      [] name = "TotalCores"       -> TotalCores(c, o)
      [] name = "MaxFrequency"     -> MaxFrequency(c, o)
      [] name = "MinFrequency"     -> MinFrequency(c, o)
      [] name = "CurrentFrequency" -> CurrentFrequency(c, o)
      [] name = "CPUusage"         -> CPUusage(c, o)
      [] name = "TotalCPUusage"    -> TotalCPUusage(c, o)
      [] name = "TotalMemory"      -> TotalMemory(c, o)
      [] name = "AvailableMemory"  -> AvailableMemory(c, o)
      [] name = "UsedMemory"       -> UsedMemory(c, o)
      [] name = "PercentageMemory" -> PercentageMemory(c, o)
      [] name = "TotalSwap"        -> TotalSwap(c, o)
      [] name = "AvailableSwap"    -> AvailableSwap(c, o)
      [] name = "UsedSwap"         -> UsedSwap(c, o)
      [] name = "PercentageSwap"   -> PercentageSwap(c, o)
      [] name = "DiskPartitions"   -> DiskPartitions(c, o)
      [] name = "DiskTotalRead"    -> DiskTotalRead(c, o)
      [] name = "DiskTotalWrite"   -> DiskTotalWrite(c, o)
      [] name = "Networks"         -> Networks(c, o)
      [] name = "TotalBytesSent"   -> TotalBytesSent(c, o)
      [] name = "TotalBytesReceived"   -> TotalBytesReceived(c, o)
      [] name = "PythonBuild"          -> PythonBuild(c, o)
      [] name = "PythonCompiler"       -> PythonCompiler(c, o)
      [] name = "PythonBranch"         -> PythonBranch(c, o)
      [] name = "PythonImplementation" -> PythonImplementation(c, o)
      [] name = "PythonRevision"       -> PythonRevision(c, o)
      [] name = "PythonVersion"        -> PythonVersion(c, o)

---------------------------------------------------------------------------
(* The reporting functions of src/pySystemInfo.py *)

\* What a run of statements printed, the exception that ended it ("none"
\* when it ran to its end), and the OS queries it made.
NoReport == [out |-> <<>>, exc |-> "none", calls |-> <<>>]

\* print(line)
Say(line) == [out |-> <<line>>, exc |-> "none", calls |-> <<>>]
\* A query of the OS.
Ask(q) == [out |-> <<>>, exc |-> "none", calls |-> <<q>>]
\* An exception nothing catches.
Throw(e) == [out |-> <<>>, exc |-> e, calls |-> <<>>]

\* a, then b unless an exception ended a.
Then(a, b) ==
    IF a.exc # "none" THEN a
    ELSE [out |-> a.out \o b.out, exc |-> b.exc, calls |-> a.calls \o b.calls]

\* The statements steps[i], steps[i + 1], ... in turn.
RECURSIVE RunFrom(_, _)
RunFrom(steps, i) ==
    IF i > Len(steps) THEN NoReport
    ELSE Then(steps[i], RunFrom(steps, i + 1))

Run(steps) == RunFrom(steps, 1)

printPlatfrom(o) ==
    Run(<<Ask(<<"platform.uname">>),
          Say("System      : " \o o.uname.system),
          Say("Hostname    : " \o o.uname.node),
          Say("Release     : " \o o.uname.release),
          Say("Version     : " \o o.uname.version),
          Say("Machine     : " \o o.uname.machine),
          Say("Processor   : " \o o.uname.processor),
          Ask(<<"platform.architecture">>),
          Say("Architecture: " \o o.arch),
          Ask(<<"socket.gethostbyname">>),
          IF o.hostResolves THEN Say("IP Address  : " \o o.ip)
          ELSE Throw("socket.gaierror"),
          Ask(<<"uuid.getnode">>),
          Say("MAC address : " \o MacString(o.node))>>)

printBootTime(o) ==
    Run(<<Ask(<<"psutil.boot_time">>), Say(BootTimeLine(o.bootTime))>>)

\* for i, percentage in enumerate(psutil.cpu_percent(percpu=True))
printCoreLoop(percents) ==
    Run([i \in 1..Len(percents) |->
            Say("  Core " \o IntStr(i - 1) \o "     : "
                \o Tenths(percents[i]) \o "%")])

printCPUInfo(o) ==
    Run(<<Ask(<<"psutil.cpu_count">>),
          Say("Physical cores   : " \o IntStr(o.physical)),
          Ask(<<"psutil.cpu_count">>),
          Say("Total cores      : " \o IntStr(Len(o.percpu))),
          Ask(<<"psutil.cpu_freq">>),
          IF o.cpuFreq = None THEN Throw("AttributeError")
          ELSE Run(<<
              Say("Max Frequency    : " \o Hundredths(o.cpuFreq.max) \o "Mhz"),
              Say("Min Frequency    : " \o Hundredths(o.cpuFreq.min) \o "Mhz"),
              Say("Current Frequency: " \o Hundredths(o.cpuFreq.current) \o "Mhz")>>),
          Say("CPU Usage Per Core"),
          Ask(<<"psutil.cpu_percent">>),
          printCoreLoop(o.percpu),
          Ask(<<"psutil.cpu_percent">>),
          Say("Total CPU Usage  : " \o Tenths(o.cpuTotal) \o "%")>>)

printMemoryInfo(o) ==
    Run(<<Ask(<<"psutil.virtual_memory">>),
          Say("Total Memory     : " \o PyStr(getSize(o.svmem.total, "B"))),
          Say("Available Memory : " \o PyStr(getSize(o.svmem.available, "B"))),
          Say("Used Memory      : " \o PyStr(getSize(o.svmem.used, "B"))),
          Say("Percentage Memory: " \o Tenths(o.svmem.percent) \o "%"),
          Ask(<<"psutil.swap_memory">>),
          Say("Total Swap       : " \o PyStr(getSize(o.swap.total, "B"))),
          Say("Free Swap        : " \o PyStr(getSize(o.swap.free, "B"))),
          Say("Used Swap        : " \o PyStr(getSize(o.swap.used, "B"))),
          Say("Percentage Swap  : " \o Tenths(o.swap.percent) \o "%")>>)

\* The local name diskIO of printDiskInfo is not bound before its first
\* assignment.
Unbound == [kind |-> "unbound"]

\* The first statements of the loop body of printDiskInfo, up to the usage
\* query.
printDiskHead(partition) ==
    Run(<<Say("=========== Device: " \o partition.device \o " ========="),
          Say("      Mountpoint  : " \o partition.mountpoint),
          Say("  File System Type: " \o partition.fstype),
          Ask(<<"psutil.disk_usage", partition.mountpoint>>)>>)

\* The rest of the loop body, reached when the usage query did not raise:
\* the sizes, and diskIO = psutil.disk_io_counters(), which the source has
\* inside the loop.
printDiskRest(u) ==
    Run(<<Say("  Total Size      : " \o PyStr(getSize(u.total, "B"))),
          Say("  Used            : " \o PyStr(getSize(u.used, "B"))),
          Say("  Free            : " \o PyStr(getSize(u.free, "B"))),
          Say("  Percentage      : "
              \o PyStr(getSizeFrom(DecNum(u.percent), 1, "B")) \o "%"),
          Ask(<<"psutil.disk_io_counters">>)>>)

\* for partition in partitions: from partition i on; d is the local diskIO
\* on entry.  Gives what the loop does and the local diskIO after it.
RECURSIVE printDiskLoop(_, _, _)
printDiskLoop(o, i, d) ==
    IF i > Len(o.partitions) THEN [r |-> NoReport, diskIO |-> d]
    ELSE LET partition == o.partitions[i]
         IN  IF partition.mountpoint \in o.failing
             THEN \* except PermissionError: continue
                  LET rest == printDiskLoop(o, i + 1, d)
                  IN  [r |-> Then(printDiskHead(partition), rest.r),
                       diskIO |-> rest.diskIO]
             ELSE LET rest == printDiskLoop(o, i + 1, o.diskIO)
                  IN  [r |-> Then(Then(printDiskHead(partition),
                                       printDiskRest(DiskUsage(partition.mountpoint))),
                                  rest.r),
                       diskIO |-> rest.diskIO]

\* print(); print(f"Total Read : ..."); print(f"Total Write: ...") with the
\* local diskIO being d.
printDiskTotals(d) ==
    Then(Say(""),
         IF d = Unbound THEN Throw("UnboundLocalError")
         ELSE IF d = None THEN Throw("AttributeError")
         ELSE Run(<<Say("Total Read : " \o PyStr(getSize(d.read_bytes, "B"))),
                    Say("Total Write: " \o PyStr(getSize(d.write_bytes, "B")))>>))

printDiskInfo(o) ==
    LET loop == printDiskLoop(o, 1, Unbound)
    IN  Run(<<Ask(<<"psutil.disk_partitions">>), loop.r, printDiskTotals(loop.diskIO)>>)

\* The lines printed for one address.
printAddress(interfaceName, address) ==
    Then(Say("=== Interface: " \o interfaceName \o " ==="),
         IF FamilyStr(address.family) = "AddressFamily.AF_INET"
         THEN Run(<<Say("  IP Address   : " \o PyStr(address.address)),
                    Say("  Netmask      : " \o PyStr(address.netmask)),
                    Say("  Broadcast IP : " \o PyStr(address.broadcast))>>)
         ELSE IF FamilyStr(address.family) = "AddressFamily.AF_PACKET"
         THEN Run(<<Say("  MAC Address  : " \o PyStr(address.address)),
                    Say("  Netmask      : " \o PyStr(address.netmask)),
                    Say("  Broadcast MAC: " \o PyStr(address.broadcast))>>)
         ELSE NoReport)

\* for address in interfaceAddresses
printAddressLoop(item) ==
    Run([j \in 1..Len(item.addrs) |-> printAddress(item.name, item.addrs[j])])

\* for interfaceName, interfaceAddresses in ifAddrs.items()
printInterfaceLoop(items) ==
    Run([i \in 1..Len(items) |-> printAddressLoop(items[i])])

printNetworkInfo(o) ==
    Run(<<Ask(<<"psutil.net_if_addrs">>),
          printInterfaceLoop(o.ifAddrs),
          Ask(<<"psutil.net_io_counters">>),
          Say(""),
          Say("Total Bytes Sent    : " \o PyStr(getSize(o.netIO.bytes_sent, "B"))),
          Say("Total Bytes Received: " \o PyStr(getSize(o.netIO.bytes_recv, "B")))>>)

\* The first line of each licence text stands for the whole text.
printShortLicense == Say("PySystemInfo   Copyright (C) 2020  Kevin Scott")
printLongLicense == Say("    Copyright (C) 2020  Kevin Scott")

\* print("="*30, title, "="*30)
printSeperator(title) ==
    Say("==============================" \o " " \o title \o " "
        \o "==============================")

\* The resource groups, in the order both printFromArgs and printFromMenu
\* go through them: the flag, the menu entry and the title of each.
Groups ==
    <<[flag |-> "platform", menu |-> "Platform",  title |-> "Platform Information"],
      [flag |-> "bootTime", menu |-> "Boot Time", title |-> "Boot Time"],
      [flag |-> "cpu",      menu |-> "CPU",       title |-> "CPU Information"],
      [flag |-> "memory",   menu |-> "Memory",    title |-> "Memory Information"],
      [flag |-> "disk",     menu |-> "Disk",      title |-> "Disk Information"],
      [flag |-> "network",  menu |-> "Network",   title |-> "Network Information"]>>

\* The function that prints group g.
printGroup(g, o) ==
    CASE g = 1 -> printPlatfrom(o)
      [] g = 2 -> printBootTime(o)
      [] g = 3 -> printCPUInfo(o)
      [] g = 4 -> printMemoryInfo(o)
      [] g = 5 -> printDiskInfo(o)
      [] g = 6 -> printNetworkInfo(o)

\* printSeperator(title); print<Group>()
printSection(g, o) == Then(printSeperator(Groups[g].title), printGroup(g, o))

\* print("args"), then the six "if args.<flag> or args.all:".
printFromArgs(a, o) ==
    Then(Say("args"),
         Run([g \in 1..Len(Groups) |->
                 IF a[Groups[g].flag] \/ a.all THEN printSection(g, o)
                 ELSE NoReport]))

\* The menu of printFromMenu.
MenuEntries == {"Platform", "Boot Time", "CPU", "Memory", "Disk", "Network",
                "All", "Quit"}

\* One pass of the while loop of printFromMenu, the user choosing responce:
\* print(), then the six "if responce == ... or responce == "All":".
menuPass(responce, o) ==
    Then(Say(""),
         Run([g \in 1..Len(Groups) |->
                 IF responce = Groups[g].menu \/ responce = "All"
                 THEN printSection(g, o)
                 ELSE NoReport]))

\* The flags argparse stores (--version exits inside parse_args).
FlagNames == {"all", "platform", "bootTime", "cpu", "memory", "disk",
              "network", "license"}
ArgSets == [FlagNames -> BOOLEAN]
NoArgs == [f \in FlagNames |-> FALSE]

\* pySystemInfo.py is not running.
MainIdle ==
    /\ pc = "idle"
    /\ args = NoArgs
    /\ report = NoReport

---------------------------------------------------------------------------
(* The OS changing under the program, and property reads *)

NoRead == [field |-> "none"]

\* import systemInfo on the machine o: the class body runs.
Imported(o) ==
    /\ os = o
    /\ cls = ClassBody(o)
    /\ last = NoRead
    /\ nchg = 0

\* value = SysInfo().<name>
Read(name) ==
    /\ last' = [field |-> name] @@ Property(name, cls, os)
    /\ UNCHANGED <<os, cls, nchg>>
    /\ UNCHANGED sizeVars
    /\ UNCHANGED mainVars

OsChange(o) ==
    /\ nchg < MaxOsChanges
    /\ o # os
    /\ os' = o
    /\ nchg' = nchg + 1
    /\ UNCHANGED <<cls, last>>
    /\ UNCHANGED sizeVars
    /\ UNCHANGED mainVars

\* sethostname
HostnameChanges == \E h \in {"alpha", "beta"} : OsChange([os EXCEPT !.uname = Uname(h)])
\* frequency scaling
FrequencyChanges == \E f \in CpuFreqs : OsChange([os EXCEPT !.cpuFreq = f])
\* a logical core goes offline or comes online
CoreHotplug == \E n \in 1..MaxCores : OsChange([os EXCEPT !.percpu = PerCpu(n)])
MemoryChanges == \E m \in Memories : OsChange([os EXCEPT !.svmem = m])
SwapChanges == \E m \in Swaps : OsChange([os EXCEPT !.swap = m])
\* a mount or an unmount
PartitionsChange == \E q \in PartitionLists : OsChange([os EXCEPT !.partitions = q])
\* a medium becomes unready (its usage query raises PermissionError) or ready
ReadinessChanges ==
    \E mp \in {q.mountpoint : q \in Partitions} :
        OsChange([os EXCEPT !.failing =
                     IF mp \in @ THEN @ \ {mp} ELSE @ \cup {mp}])
DiskIOAdvances == \E d \in DiskIOs : OsChange([os EXCEPT !.diskIO = d])
\* the addresses bound to one interface change
InterfacesChange ==
    \E i \in DOMAIN os.ifAddrs, al \in AddressLists :
        OsChange([os EXCEPT !.ifAddrs[i].addrs = al])
NetIOAdvances == \E d \in NetIOs : OsChange([os EXCEPT !.netIO = d])

SizeIdle ==
    bytes = Pad(<<0>>) /\ suffix = "B" /\ modRet = Unset /\ clsRet = Unset

InitInfo ==
    /\ SizeIdle
    /\ Imported(BaseOS)
    /\ MainIdle

NextInfo ==
    \/ \E name \in PropertyNames : Read(name)
    \/ HostnameChanges
    \/ FrequencyChanges
    \/ CoreHotplug
    \/ MemoryChanges
    \/ SwapChanges
    \/ PartitionsChange
    \/ ReadinessChanges
    \/ DiskIOAdvances
    \/ InterfacesChange
    \/ NetIOAdvances

\* SysInfo on a machine whose state changes: C5, C6.
SpecInfo == InitInfo /\ [][NextInfo]_vars

---------------------------------------------------------------------------
(* A run of pySystemInfo.py *)

\* if __name__ == "__main__": after parse_args()
Main ==
    /\ pc = "start"
    /\ IF \A f \in FlagNames : ~args[f]
       THEN /\ report' = printShortLicense
            /\ pc' = "menu"
       ELSE IF args.license
       THEN /\ report' = printLongLicense
            /\ pc' = "exit"
       ELSE /\ report' = printFromArgs(args, os)
            /\ pc' = "exit"
    /\ UNCHANGED <<args>>
    /\ UNCHANGED sizeVars
    /\ UNCHANGED infoVars

\* One pass of the loop of printFromMenu: the menu is shown, the user picks
\* responce, its groups are printed.  "Quit" leaves the loop and the program
\* exits; an exception nothing catches ends the program too.
MenuChoice(responce) ==
    /\ pc = "menu"
    /\ report' = menuPass(responce, os)
    /\ pc' = IF responce = "Quit" \/ report'.exc # "none" THEN "exit" ELSE "menu"
    /\ UNCHANGED <<args>>
    /\ UNCHANGED sizeVars
    /\ UNCHANGED infoVars

\* The machines the program is started on: the host name may not resolve,
\* the platform may report no CPU frequency or no disk I/O counters, media
\* may be unready.
StartMachines ==
    {[BaseOS EXCEPT !.hostResolves = h, !.cpuFreq = f, !.diskIO = d, !.failing = u] :
        h \in BOOLEAN,
        f \in {BaseOS.cpuFreq, None},
        d \in {BaseOS.diskIO, None},
        u \in SUBSET Range([i \in DOMAIN BaseOS.partitions |->
                               BaseOS.partitions[i].mountpoint])}

Init ==
    /\ SizeIdle
    /\ \E o \in StartMachines : Imported(o)
    /\ pc = "start"
    /\ args \in ArgSets
    /\ report = NoReport

Next == Main \/ \E responce \in MenuEntries : MenuChoice(responce)

\* A run of pySystemInfo.py.
Spec == Init /\ [][Next]_vars

---------------------------------------------------------------------------
(* The disk report and SysInfo.DiskPartitions, over the partition lists *)

\* The machines: any list of mounted partitions, any of them unready.
DiskMachines ==
    UNION {{[BaseOS EXCEPT !.partitions = q, !.failing = u, !.diskIO = d] :
               u \in SUBSET {q[i].mountpoint : i \in DOMAIN q}, d \in DiskIOs} :
           q \in PartitionLists}

InitDisk ==
    /\ SizeIdle
    /\ \E o \in DiskMachines : Imported(o)
    /\ MainIdle

\* printDiskInfo()
PrintDiskInfo ==
    /\ report' = printDiskInfo(os)
    /\ UNCHANGED <<pc, args>>
    /\ UNCHANGED sizeVars
    /\ UNCHANGED infoVars

\* value = SysInfo().DiskPartitions, or printDiskInfo()
NextDisk == Read("DiskPartitions") \/ PrintDiskInfo

SpecDisk == InitDisk /\ [][NextDisk]_vars

---------------------------------------------------------------------------
(* SysInfo.Networks, over the interface tables *)

InitNet ==
    /\ SizeIdle
    /\ \E t \in IfTables : Imported([BaseOS EXCEPT !.ifAddrs = t])
    /\ MainIdle

\* value = SysInfo().Networks
ReadNetworks == Read("Networks")

SpecNet == InitNet /\ [][ReadNetworks]_vars

---------------------------------------------------------------------------
(* The byte counts and suffixes getSize is called with *)

\* Limb values: zero, one, a tie in the second decimal (384/1024 = 0.375),
\* and the largest limb.
Digits == {0, 1, 384, 1023}

RECURSIVE LimbSeqs(_)
LimbSeqs(n) ==
    IF n = 0 THEN {<<>>}
    ELSE {<<d>> \o s : d \in Digits, s \in LimbSeqs(n - 1)}

\* The byte counts getSize is called with: below 2 * 1024^6, every limb one
\* of Digits; and 512, 1253656, 1253656678 (the docstring's and the spec's
\* examples).
SizeInputs ==
    {s \in LimbSeqs(NLimbs) : s[NLimbs] \in {0, 1}}
    \cup {Pad(<<512>>), Pad(<<280, 200, 1>>), Pad(<<102, 594, 171, 1>>)}

\* suffix="B" is the default; "iB" a caller's own.
Suffixes == {"B", "iB"}

---------------------------------------------------------------------------
(* Calls of getSize *)

InitSize ==
    /\ bytes \in SizeInputs
    /\ suffix \in Suffixes
    /\ modRet = Unset
    /\ clsRet = Unset
    /\ Imported(BaseOS)
    /\ MainIdle

\* getSize(bytes, suffix): the caller's names stay bound to their values.
CallGetSize ==
    /\ modRet' = getSize(bytes, suffix)
    /\ UNCHANGED <<bytes, suffix, clsRet>>
    /\ UNCHANGED infoVars
    /\ UNCHANGED mainVars

\* SysInfo().getSize(bytes, suffix)
CallSysInfoGetSize ==
    /\ clsRet' = SysInfo_getSize(bytes, suffix)
    /\ UNCHANGED <<bytes, suffix, modRet>>
    /\ UNCHANGED infoVars
    /\ UNCHANGED mainVars

NextSize == CallGetSize \/ CallSysInfoGetSize

SpecSize == InitSize /\ [][NextSize]_vars

---------------------------------------------------------------------------
(* Claims about getSize, checked under SpecSize *)

\* What the calls made so far returned.
Returned == {r \in {modRet, clsRet} : r # Unset}

\* k with 1024^k <= b < 1024^(k+1); 0 for b = 0.
UnitIndex(b) ==
    LET nz == {i \in 1..Len(b) : b[i] # 0}
    IN  IF nz = {} THEN 0
        ELSE (CHOOSE i \in nz : \A i2 \in nz : i2 <= i) - 1

\* The integers h with |100 * b / 1024^k - h| <= 1/2, computed on the exact
\* integer b: b / 1024^k rounded to two decimals, in hundredths.
NearestHundredths(b, k) ==
    LET p == Times(b, 100)
        h == IntPart(p, k)
    IN  {x \in {h, h + 1} :
            \/ x = h /\ ~RestAboveHalf(p, k)
            \/ x = h + 1 /\ (RestAboveHalf(p, k) \/ RestIsHalf(p, k))}

EndsWith(s, t) ==
    Len(s) >= Len(t) /\ SubSeq(s, Len(s) - Len(t) + 1, Len(s)) = t

\* C1: for every byte count b with 1024^k <= b < 1024^(k+1), k in 0..5 (and
\* b = 0 with k = 0), getSize returns the value b / 1024^k rounded to two
\* decimals, followed by the k-th unit prefix and then the suffix.
C1_PrefixAndValue ==
    \A r \in Returned :
        bytes[NLimbs] = 0 =>
            \E h \in NearestHundredths(bytes, UnitIndex(bytes)) :
                r = Str(Hundredths(h) \o Units[UnitIndex(bytes) + 1] \o suffix)

\* C2: getSize has no failure mode: every call returns a formatted string,
\* never a missing value, and for a count >= 1024^6 the prefix is "P".
C2_NoFailureMode ==
    \A r \in Returned :
        /\ r.kind = "str"
        /\ bytes[NLimbs] # 0 => EndsWith(r.s, "P" \o suffix)

\* The concrete cases of C3: byte count (limbs) and the string expected.
ConcreteCases ==
    {<<Pad(<<0>>), "0.00B">>,
     <<Pad(<<512>>), "512.00B">>,
     <<Pad(<<0, 1>>), "1.00KB">>,
     <<Pad(<<280, 200, 1>>), "1.20MB">>,
     <<Pad(<<102, 594, 171, 1>>), "1.17GB">>,
     <<Pad(<<0, 0, 0, 0, 1>>), "1.00TB">>}

\* 1024^k as limbs.
PowerOfFactor(k) == [i \in 1..NLimbs |-> IF i = k + 1 THEN 1 ELSE 0]

\* C3: with the default suffix "B", getSize(0) = "0.00B", getSize(512) =
\* "512.00B", getSize(1024) = "1.00KB", getSize(1253656) = "1.20MB",
\* getSize(1253656678) = "1.17GB", getSize(1099511627776) = "1.00TB"; an
\* exact power 1024^k is reported as 1.00 with prefix k.
C3_ConcreteCases ==
    suffix = "B" =>
        \A r \in Returned :
            /\ \A c \in ConcreteCases : bytes = c[1] => r = Str(c[2])
            /\ \A k \in 0..(Len(Units) - 1) :
                   bytes = PowerOfFactor(k) =>
                       r = Str("1.00" \o Units[k + 1] \o "B")

\* C3 witness: both getSize(1253656) calls have returned "1.20MB".
C3_Witness ==
    /\ bytes = Pad(<<280, 200, 1>>)
    /\ suffix = "B"
    /\ modRet = Str("1.20MB")
    /\ clsRet = Str("1.20MB")

---------------------------------------------------------------------------
(* Claims about SysInfo and the reports *)

\* The entry of the mapping m that describes partition q: the one under
\* q's device, holding q's mount point.
Describes(m, q) ==
    /\ q.device \in DOMAIN m
    /\ m[q.device][1] = Str(q.mountpoint)

\* C4: in SysInfo.DiskPartitions, for every list of partitions and every
\* subset of them whose usage query fails, the mapping returned holds
\* nothing for a failed partition, and every partition whose usage query
\* succeeds, before or after a failed one, is queried and present in the
\* mapping; a failure never aborts the collection.
C4_FailedSkippedOthersKept ==
    last.field = "DiskPartitions" =>
        /\ last.value.kind = "dict"
        /\ \A i \in DOMAIN os.partitions :
               LET q == os.partitions[i]
               IN  /\ <<"psutil.disk_usage", q.mountpoint>> \in Range(last.calls)
                   /\ q.mountpoint \in os.failing => ~Describes(last.value.map, q)
                   /\ q.mountpoint \notin os.failing => Describes(last.value.map, q)

\* C5: every value a SysInfo field reports is the OS value at the moment of
\* that read, never one captured by an earlier read or when the class was
\* loaded: a read gives what a class loaded at that moment would give.
C5_ReadsAreFresh ==
    [][last' # last =>
          last'.value = Property(last'.field, ClassBody(os'), os').value]_vars

\* C6: the list SysInfo.CPUusage returns is as long as the core count
\* SysInfo.TotalCores returned just before it, though the set of online
\* cores may change between the two OS queries.
C6_UsagePerCore ==
    [][(last.field = "TotalCores" /\ last'.field = "CPUusage") =>
          Len(last'.value.items) = last.value.n]_vars

\* The separator line of every group is in the output r.
AllGroupsReported(r) ==
    \A g \in DOMAIN Groups : printSeperator(Groups[g].title).out[1] \in Range(r.out)

\* C7: a report of all groups (printFromArgs with --all) never ends part-way
\* because one group failed: no exception ends it, and every group in the
\* order Platform, Boot Time, CPU, Memory, Disk, Network is reported.
C7_GracefulDegradation ==
    (pc = "exit" /\ args.all /\ ~args.license) =>
        /\ report.exc = "none"
        /\ AllGroupsReported(report)

\* How many times the run r read the disk I/O counters.
DiskIOReads(r) ==
    Cardinality({i \in DOMAIN r.calls : r.calls[i] = <<"psutil.disk_io_counters">>})

\* C8: printDiskInfo reads the disk I/O counters exactly once for every
\* partition list, the empty one and one whose usage queries all fail
\* included, and always prints the "Total Read" and "Total Write" lines
\* from that read.
C8_DiskIOReadOnce ==
    report # NoReport =>
        /\ DiskIOReads(report) = 1
        /\ "Total Read : " \o PyStr(getSize(os.diskIO.read_bytes, "B")) \in Range(report.out)
        /\ "Total Write: " \o PyStr(getSize(os.diskIO.write_bytes, "B")) \in Range(report.out)

\* The (interface name, address) pairs of an interface table from item i
\* on, in enumeration order.
RECURSIVE PairsFrom(_, _)
PairsFrom(items, i) ==
    IF i > Len(items) THEN <<>>
    ELSE [j \in 1..Len(items[i].addrs) |-> <<items[i].name, items[i].addrs[j]>>]
         \o PairsFrom(items, i + 1)

\* C9: SysInfo.Networks holds exactly one entry per (interface, address)
\* pair: its keys are 0..N-1, N the number of pairs, given in enumeration
\* order, and the entry under n is [interface name, family tag, address,
\* netmask, broadcast] of pair n, whatever the family.
C9_OneEntryPerPair ==
    last.field = "Networks" =>
        LET pairs == PairsFrom(os.ifAddrs, 1)
            m == last.value.map
        IN  /\ last.value.kind = "dict"
            /\ DOMAIN m = 0..(Len(pairs) - 1)
            /\ \A n \in DOMAIN m :
                   LET a == pairs[n + 1][2]
                   IN  m[n] = <<Str(pairs[n + 1][1]),
                                Str("AddressFamily." \o a.family),
                                a.address, a.netmask, a.broadcast>>

\* C9 witness: Networks was read on a table of two interfaces with two
\* addresses each, one of a family that is neither IPv4 nor link-layer, and
\* returned four entries.
C9_Witness ==
    /\ last.field = "Networks"
    /\ Len(os.ifAddrs) = 2
    /\ \A i \in DOMAIN os.ifAddrs : Len(os.ifAddrs[i].addrs) = 2
    /\ os.ifAddrs[2].addrs[1].family = "AF_INET6"
    /\ os.ifAddrs[1].addrs[2].family = "AF_PACKET"
    /\ Cardinality(DOMAIN last.value.map) = 4

\* C11: in printDiskInfo a partition whose usage query fails is skipped
\* entirely: no line of the report (device header, mount point, filesystem
\* type, sizes) is about it, and the enumeration goes on with the next
\* partition, so the usage of every partition is queried.
C11_FailedPartitionSilent ==
    report # NoReport =>
        \A i \in DOMAIN os.partitions :
            LET q == os.partitions[i]
            IN  /\ <<"psutil.disk_usage", q.mountpoint>> \in Range(report.calls)
                /\ q.mountpoint \in os.failing =>
                       "      Mountpoint  : " \o q.mountpoint \notin Range(report.out)

\* The separator lines of the output r, in the order printed: one per
\* section.
SectionsOf(r) ==
    SelectSeq(r.out,
              LAMBDA line : \E g \in DOMAIN Groups :
                                line = printSeperator(Groups[g].title).out[1])

\* The separator lines of the groups that satisfy Wanted, in the order
\* Platform, Boot Time, CPU, Memory, Disk, Network.
SectionsFor(Wanted(_)) ==
    LET chosen == SelectSeq(Groups, Wanted)
    IN  [i \in DOMAIN chosen |-> printSeperator(chosen[i].title).out[1]]

\* C12: printFromArgs prints one section per requested group: for every
\* combination of the flags, a group's section is printed if and only if its
\* flag or --all is set, each once, in the order Platform, Boot Time, CPU,
\* Memory, Disk, Network.
C12_SectionPerFlag ==
    (pc = "exit" /\ ~args.license /\ \E f \in FlagNames : args[f]) =>
        SectionsOf(report) = SectionsFor(LAMBDA g : args[g.flag] \/ args.all)

\* C13: the loop of printFromMenu ends exactly when "Quit" is chosen: every
\* pass is the pass of some menu choice; a choice other than "Quit" prints
\* precisely its own section ("All" all six, in the order Platform, Boot
\* Time, CPU, Memory, Disk, Network) and the menu is shown again; "Quit"
\* prints no section and ends the loop.
C13_EndsExactlyOnQuit ==
    [][pc = "menu" =>
          \E responce \in MenuEntries :
              /\ SectionsOf(report') =
                     SectionsFor(LAMBDA g : responce = g.menu \/ responce = "All")
              /\ pc' = IF responce = "Quit" THEN "exit" ELSE "menu"]_vars

=============================================================================
